---- MODULE Spec2Model ----
(***************************************************************************)
(* FusedAttentionLayer<T> (FusedAttentionLayer.cu): the forward pass of    *)
(* the fused multi-head attention layer, its capacity guard, its scratch   *)
(* buffer lifecycle, its construction-time kernel dispatch and the         *)
(* trt_add_QKV_bias repack kernel.                                         *)
(*                                                                         *)
(* One layer instance is followed.  Every host call the layer makes on a   *)
(* collaborator (allocator, cublas wrapper, attention runner, kernel       *)
(* launch) is appended, in program order, to `trace`, the event list of    *)
(* the operation that ran last.                                            *)
(***************************************************************************)
EXTENDS Integers, Sequences, FiniteSets, TLC

VARIABLES
    SPARSITY_ENABLED,               \* the build flag of lines 99, 169, 182, 206
    life,                           \* "none" | "live" | "destroyed"
    max_batch_size_,
    max_seq_len_,
    head_num_,
    size_per_head_,
    hidden_units_,
    sm_,
    sparse_,
    is_free_buffer_after_forward_,
    is_allocate_buffer_,
    dispatcher_fp16,                \* NoRunner, or the runner the constructor made
    buf,                            \* region -> [valid, size]: what the allocator handed out
    call,                           \* the operation that ran last, with its inputs and outcome
    trace,                          \* the collaborator calls it made, in program order
    data,                           \* kernel specification: what fills Q, K, V and the biases
    launch,                         \* kernel specification: the launch under way
    done,                           \* kernel specification: the blocks that have run
    qkv_buf                         \* kernel specification: the fused buffer, as half2

layerVars == <<max_batch_size_, max_seq_len_, head_num_, size_per_head_, hidden_units_,
               sm_, sparse_, is_free_buffer_after_forward_, is_allocate_buffer_,
               dispatcher_fp16, buf>>
kernelVars == <<data, launch, done, qkv_buf>>
vars == <<SPARSITY_ENABLED, life, layerVars, call, trace, kernelVars>>

\* ------------------------------------------------------------------ bounds
MaxBatch == 1           \* batch sizes 0..MaxBatch+1; max_batch_size is constructed 0 or MaxBatch+1
MaxSeq == 1             \* small sequence lengths 0..MaxSeq+1, next to 384, 385, 512
MaxTokens == 2          \* kernel specification: token_num in 0..MaxTokens
MaxKHeads == 2          \* kernel specification: head_num in 1..MaxKHeads

\* ------------------------------------------------------- program constants
\* kSM_xx name the hardware generations xx (line 236).
kSM_70 == 70
kSM_72 == 72
kSM_75 == 75
kSM_80 == 80
kSM_86 == 86
SupportedSizePerHead == 64
HardSeqLen == 384
PtrTableLen == 12
PadTo == 8

\* ------------------------------------------------------------------ inputs
AllSMs == {60, kSM_70, kSM_72, kSM_75, kSM_80, kSM_86, 90}
SizesPerHead == {32, SupportedSizePerHead}
Heads == {1, 2}
ConfigBatch == {0, MaxBatch + 1}
CallBatch == 0..(MaxBatch + 1)
ConfigSeq == (0..MaxSeq) \cup {HardSeqLen + 128}
CallSeq == (0..(MaxSeq + 1)) \cup {HardSeqLen, HardSeqLen + 1}
TokenCounts == {0, 1, PadTo, PadTo + 1}

Regions == {"q_buf_", "k_buf_", "v_buf_", "qkv_buf_", "qkv_buf_2_", "attn_workspace_",
            "batch_qkv_kernel_ptr_"}
NoRunner == [kernel |-> <<0, 0>>, S |-> 0, B |-> 0, state |-> "null"]
NoBuf == [r \in Regions |-> [valid |-> FALSE, size |-> 0]]
NoCall == [op |-> "none", batch |-> 0, seq_len |-> 0, token_num |-> 0, po_shape |-> 0,
           po_null |-> FALSE, useSparse |-> FALSE, fuseBatch |-> FALSE, tileOk |-> FALSE,
           result |-> "none"]
NoLaunch == [grid |-> 0, block |-> 0, valid_word_num |-> 0, head_num |-> 0,
             size_per_head |-> 0, phase |-> "idle"]
NoData == [q |-> 0, k |-> 0, v |-> 0, bias |-> 0]

Ev(op, arg, src, dst, n, n2) ==
    [op |-> op, arg |-> arg, src |-> src, dst |-> dst, n |-> n, n2 |-> n2]
Bool(b) == IF b THEN "true" ELSE "false"

\* ------------------------------------------------- construction (215-264)
\* Mutant: kSM_72 is missing from the list of generations.
KernelExists_no72(sm, size_per_head) ==
    /\ (sm = kSM_70 \/ sm = kSM_86 \/ sm = kSM_80 \/ sm = kSM_75)
    /\ size_per_head = SupportedSizePerHead

\* The condition of lines 236 and 259.
KernelExists(sm, size_per_head) ==
    /\ (sm = kSM_70 \/ sm = kSM_86 \/ sm = kSM_80 \/ sm = kSM_75 \/ sm = kSM_72)
    /\ size_per_head = SupportedSizePerHead

\* dispatcher_fp16.reset(new FusedMHARunnerFP16v2(head_num_, size_per_head_, sm_, q_scaling_))
NewRunner(sm, size_per_head) ==
    [kernel |-> <<sm, size_per_head>>, S |-> 0, B |-> 0, state |-> "Unconfigured"]

CtorCall(op, result) == [NoCall EXCEPT !.op = op, !.result = result]

\* FusedAttentionLayer(max_batch_size, max_seq_len, head_num, size_per_head, sm, ...,
\*                     is_free_buffer_after_forward, sparse)
Construct(max_batch_size, max_seq_len, head_num, size_per_head, sm, free_after, sparse) ==
    /\ life = "none"
    /\ IF KernelExists(sm, size_per_head)
       THEN /\ life' = "live"
            /\ max_batch_size_' = max_batch_size
            /\ max_seq_len_' = max_seq_len
            /\ head_num_' = head_num
            /\ size_per_head_' = size_per_head
            /\ sm_' = sm
            /\ sparse_' = sparse
            /\ is_free_buffer_after_forward_' = free_after
            /\ is_allocate_buffer_' = FALSE
            /\ dispatcher_fp16' = NewRunner(sm, size_per_head)
            /\ hidden_units_' = head_num * size_per_head
            /\ buf' = NoBuf
            /\ call' = CtorCall("construct", "ok")
            /\ trace' = <<Ev("new FusedMHARunnerFP16v2", "-", "-", "dispatcher_fp16",
                             sm, size_per_head)>>
       ELSE /\ call' = CtorCall("construct", "throw")
            /\ trace' = <<Ev("throw", "runtime_error", "-", "-", sm, size_per_head)>>
            /\ UNCHANGED <<life, layerVars>>
    /\ UNCHANGED <<SPARSITY_ENABLED, kernelVars>>

\* FusedAttentionLayer(FusedAttentionLayer<T> const& attention_layer): the model goes on
\* with the copy; the source instance keeps its own regions and is followed no further.
CopyConstruct ==
    /\ life = "live"
    /\ IF KernelExists(sm_, size_per_head_)
       THEN /\ is_allocate_buffer_' = FALSE
            /\ dispatcher_fp16' = NewRunner(sm_, size_per_head_)
            /\ buf' = NoBuf
            /\ call' = CtorCall("copy", "ok")
            /\ trace' = <<Ev("new FusedMHARunnerFP16v2", "-", "-", "dispatcher_fp16",
                             sm_, size_per_head_)>>
            /\ UNCHANGED <<max_batch_size_, max_seq_len_, head_num_, size_per_head_,
                           hidden_units_, sm_, sparse_, is_free_buffer_after_forward_>>
       ELSE /\ call' = CtorCall("copy", "throw")
            /\ trace' = <<Ev("throw", "runtime_error", "-", "-", sm_, size_per_head_)>>
            /\ UNCHANGED layerVars
    /\ UNCHANGED <<SPARSITY_ENABLED, life, kernelVars>>

\* ------------------------------------------------ scratch buffers (273-306)
AllocOrder == <<"q_buf_", "k_buf_", "v_buf_", "qkv_buf_", "qkv_buf_2_", "attn_workspace_",
                "batch_qkv_kernel_ptr_">>

\* Mutant: the is_allocate_buffer_ test of line 276 is left out.
allocateBuffer_noGuard(flag, b, mb, ms) ==
    LET size(r) ==
            CASE r \in {"q_buf_", "k_buf_", "v_buf_", "qkv_buf_2_"} -> mb * ms * hidden_units_
              [] r = "qkv_buf_" -> 3 * mb * ms * hidden_units_
              [] r = "attn_workspace_" -> 0
              [] r = "batch_qkv_kernel_ptr_" -> PtrTableLen
    IN  [buf |-> [r \in Regions |-> [valid |-> TRUE, size |-> size(r)]],
         flag |-> TRUE,
         ev |-> [i \in 1..Len(AllocOrder) |->
                    Ev("malloc", "-", "-", AllocOrder[i], size(AllocOrder[i]), 0)]]

\* allocateBuffer() on a layer whose capacity fields are mb, ms.  Sizes are in elements
\* of T; the size of attn_workspace_ is the runner's getWorkspaceSize(), kept as 0.
allocateBuffer(flag, b, mb, ms) ==
    LET size(r) ==
            CASE r \in {"q_buf_", "k_buf_", "v_buf_", "qkv_buf_2_"} -> mb * ms * hidden_units_
              [] r = "qkv_buf_" -> 3 * mb * ms * hidden_units_
              [] r = "attn_workspace_" -> 0
              [] r = "batch_qkv_kernel_ptr_" -> PtrTableLen
    IN  IF flag = FALSE
        THEN [buf |-> [r \in Regions |-> [valid |-> TRUE, size |-> size(r)]],
              flag |-> TRUE,
              ev |-> [i \in 1..Len(AllocOrder) |->
                         Ev("malloc", "-", "-", AllocOrder[i], size(AllocOrder[i]), 0)]]
        ELSE [buf |-> b, flag |-> flag, ev |-> <<>>]

\* sync_check_cuda_error() of lines 180 and 304: the host checks the device for errors;
\* whether it also waits for the work enqueued so far depends on the build.
Sync == <<Ev("sync_check_cuda_error", "-", "-", "-", 0, 0)>>

\* Mutant: is_allocate_buffer_ is not reset (line 303 left out).
freeBuffer_keepFlag(flag, b) ==
    IF flag = TRUE
    THEN [buf |-> NoBuf,
          flag |-> TRUE,
          ev |-> [i \in 1..Len(AllocOrder) |-> Ev("free", "-", "-", AllocOrder[i], 0, 0)]
                 \o Sync]
    ELSE [buf |-> b, flag |-> flag, ev |-> <<>>]

\* freeBuffer(): the regions are handed back in the order of lines 295-302, then
\* sync_check_cuda_error().
freeBuffer(flag, b) ==
    IF flag = TRUE
    THEN [buf |-> NoBuf,
          flag |-> FALSE,
          ev |-> [i \in 1..Len(AllocOrder) |-> Ev("free", "-", "-", AllocOrder[i], 0, 0)]
                 \o Sync]
    ELSE [buf |-> b, flag |-> flag, ev |-> <<>>]

AllocateBufferCall ==
    /\ life = "live"
    /\ LET a == allocateBuffer(is_allocate_buffer_, buf, max_batch_size_, max_seq_len_)
       IN  /\ buf' = a.buf
           /\ is_allocate_buffer_' = a.flag
           /\ trace' = a.ev
    /\ call' = CtorCall("allocateBuffer", "ok")
    /\ UNCHANGED <<SPARSITY_ENABLED, life, max_batch_size_, max_seq_len_, head_num_,
                   size_per_head_, hidden_units_, sm_, sparse_,
                   is_free_buffer_after_forward_, dispatcher_fp16, kernelVars>>

FreeBufferCall ==
    /\ life = "live"
    /\ LET f == freeBuffer(is_allocate_buffer_, buf)
       IN  /\ buf' = f.buf
           /\ is_allocate_buffer_' = f.flag
           /\ trace' = f.ev
    /\ call' = CtorCall("freeBuffer", "ok")
    /\ UNCHANGED <<SPARSITY_ENABLED, life, max_batch_size_, max_seq_len_, head_num_,
                   size_per_head_, hidden_units_, sm_, sparse_,
                   is_free_buffer_after_forward_, dispatcher_fp16, kernelVars>>

\* ~FusedAttentionLayer(): cublas_wrapper_ = nullptr; freeBuffer();
Destroy ==
    /\ life = "live"
    /\ life' = "destroyed"
    /\ LET f == freeBuffer(is_allocate_buffer_, buf)
       IN  /\ buf' = f.buf
           /\ is_allocate_buffer_' = f.flag
           /\ trace' = f.ev
    /\ call' = CtorCall("destroy", "ok")
    /\ UNCHANGED <<SPARSITY_ENABLED, max_batch_size_, max_seq_len_, head_num_,
                   size_per_head_, hidden_units_, sm_, sparse_,
                   is_free_buffer_after_forward_, dispatcher_fp16, kernelVars>>

\* ------------------------------------------------ capacity guard (308-327)
\* Mutant: the bound is compared with < instead of <=.
isValidBatchSize_strict(batch_size) ==
    IF max_batch_size_ = 0
    THEN [ret |-> TRUE, max |-> batch_size]
    ELSE [ret |-> batch_size < max_batch_size_, max |-> max_batch_size_]

\* isValidBatchSize(batch_size): the value returned and max_batch_size_ afterwards.
isValidBatchSize(batch_size) ==
    IF max_batch_size_ = 0
    THEN [ret |-> TRUE, max |-> batch_size]
    ELSE [ret |-> batch_size <= max_batch_size_, max |-> max_batch_size_]

\* Mutant: the absolute ceiling of line 326 is left out.
isValidSeqLen_noCeiling(seq_len) ==
    LET max == IF max_seq_len_ = 0 THEN seq_len ELSE max_seq_len_
    IN  [ret |-> seq_len <= max, max |-> max]

\* isValidSeqLen(seq_len): the value returned and max_seq_len_ afterwards.
isValidSeqLen(seq_len) ==
    LET max == IF max_seq_len_ = 0 THEN seq_len ELSE max_seq_len_
    IN  [ret |-> seq_len <= max /\ seq_len <= HardSeqLen, max |-> max]

\* ------------------------------------------------------- forward (70-213)
\* Mutant: a block of rows is added without the test of line 92.
m_padded_always(m) == (m \div PadTo + 1) * PadTo

\* Lines 91-95 and 100: the row count the sparse calls are given.
m_padded(m) == IF m % PadTo # 0 THEN (m \div PadTo + 1) * PadTo ELSE m

\* Mutant: the layer's sparse_ flag is not consulted.
UseSparsePath_noFlag(useSparse) == SPARSITY_ENABLED /\ useSparse

\* Lines 101 and 183: the condition of the structured-sparse branch; it is compiled
\* only under SPARSITY_ENABLED.
UseSparsePath(useSparse) == SPARSITY_ENABLED /\ sparse_ /\ useSparse

\* Line 111: is_batched_QKV_, evaluated in the else branch only.
UseBatchedPath(useSparse, fuseBatch) == ~UseSparsePath(useSparse) /\ fuseBatch

\* hA of lines 113-124, the table copied to batch_qkv_kernel_ptr_ (line 129);
\* batch_qkv_input_ptr_ and batch_qkv_buf_ptr_ are its entries 5.. and 9.. (285-286).
hA == <<"query_weight.kernel", "key_weight.kernel", "value_weight.kernel", "nullptr",
        "from_tensor", "from_tensor", "from_tensor", "nullptr",
        "q_buf_", "k_buf_", "v_buf_", "nullptr">>

\* Lines 99-171: the Q/K/V projections of m rows.
ProjectQKV(m, useSparse, fuseBatch) ==
    IF UseSparsePath(useSparse)
    THEN <<Ev("SpGemm", "query_weight.sp_kernel", "from_tensor", "q_buf_", m_padded(m), 1),
           Ev("SpGemm", "key_weight.sp_kernel", "from_tensor", "k_buf_", m_padded(m), 1),
           Ev("SpGemm", "value_weight.sp_kernel", "from_tensor", "v_buf_", m_padded(m), 1)>>
    ELSE IF UseBatchedPath(useSparse, fuseBatch)
    THEN <<Ev("cudaMemcpyAsync", "hA", "host", "batch_qkv_kernel_ptr_", PtrTableLen, 0),
           Ev("batchedGemm", "batch_qkv_kernel_ptr_", "batch_qkv_input_ptr_",
              "batch_qkv_buf_ptr_", m, 3)>>
    ELSE <<Ev("Gemm", "query_weight.kernel", "from_tensor", "q_buf_", m, 1),
           Ev("Gemm", "key_weight.kernel", "from_tensor", "k_buf_", m, 1),
           Ev("Gemm", "value_weight.kernel", "from_tensor", "v_buf_", m, 1)>>

\* Mutant: the block has one thread per element of T instead of one per half2.
LaunchConfig_fullBlock(token_num, head_num, size_per_head) ==
    [grid |-> token_num,
     block |-> head_num * size_per_head,
     valid_word_num |-> token_num,
     head_num |-> head_num,
     size_per_head |-> size_per_head \div 2]

\* Lines 53-54 and 65-67: the geometry and the arguments of the launch.
LaunchConfig(token_num, head_num, size_per_head) ==
    [grid |-> token_num,
     block |-> (head_num * size_per_head) \div 2,
     valid_word_num |-> token_num,
     head_num |-> head_num,
     size_per_head |-> size_per_head \div 2]

\* Lines 50-68: the launch of trt_add_QKV_bias as the forward call issues it.
invokeTrtAddQkvBias(token_num) ==
    LET c == LaunchConfig(token_num, head_num_, size_per_head_)
    IN  <<Ev("trt_add_QKV_bias", "bias", "q_buf_,k_buf_,v_buf_", "qkv_buf_", c.grid,
             c.block)>>

\* FusedMHARunnerFP16v2::getSFromMaxSeqLen: the smallest tile class >= the length
\* (0 when there is none).
TileClasses == {64, 128, 256, HardSeqLen}
getSFromMaxSeqLen(seq_len) ==
    IF \E c \in TileClasses : c >= seq_len
    THEN CHOOSE c \in TileClasses :
             c >= seq_len /\ \A d \in TileClasses : d >= seq_len => c <= d
    ELSE 0

\* Mutant: the 1 is not subtracted.
SetupB_noMinus(po_shape) == po_shape

\* Line 177: const int B = input_tensors->at(2).shape[0] - 1.
SetupB(po_shape) == po_shape - 1

\* Mutant: the kernel is run before it is set up.
Attention_runFirst(S, B, po_null) ==
    <<Ev("run", IF po_null THEN "nullptr" ELSE "padding_offset", "qkv_buf_", "qkv_buf_2_",
         S, B),
      Ev("setup", "-", "-", "dispatcher_fp16", S, B)>>
    \o Sync

\* Lines 178-180, reached when isValid(S) holds: setup, run, sync_check_cuda_error().
Attention(S, B, po_null) ==
    <<Ev("setup", "-", "-", "dispatcher_fp16", S, B),
      Ev("run", IF po_null THEN "nullptr" ELSE "padding_offset", "qkv_buf_", "qkv_buf_2_",
         S, B)>>
    \o Sync

\* Mutant: the output projection has no sparse branch.
ProjectOutput_dense(m, useSparse) ==
    <<Ev("Gemm", "attention_output_weight.kernel", "qkv_buf_2_", "attention_out", m, 1)>>

\* Lines 182-208: the output projection.  isUseSparse(1, n, m, k) is asked again with
\* the arguments of line 101 and gives the answer it gave there.
ProjectOutput(m, useSparse) ==
    IF UseSparsePath(useSparse)
    THEN <<Ev("SpGemm", "attention_output_weight.sp_kernel", "qkv_buf_2_", "attention_out",
              m_padded(m), 1)>>
    ELSE <<Ev("Gemm", "attention_output_weight.kernel", "qkv_buf_2_", "attention_out",
              m, 1)>>

Check(name, n, ok) == <<Ev(name, Bool(ok), "-", "-", n, 0)>>
Throw(what) == <<Ev("throw", what, "-", "-", 0, 0)>>

\* Mutant: allocateBuffer() is called before the two FT_CHECKs.
GuardAndAllocate_allocFirst(batch, seq_len, okb, oks, alloc) ==
    alloc
    \o (IF ~okb
        THEN Check("isValidBatchSize", batch, FALSE) \o Throw("FT_CHECK")
        ELSE IF ~oks
        THEN Check("isValidBatchSize", batch, TRUE)
             \o Check("isValidSeqLen", seq_len, FALSE) \o Throw("FT_CHECK")
        ELSE Check("isValidBatchSize", batch, TRUE) \o Check("isValidSeqLen", seq_len, TRUE))

\* Lines 80-82: the two FT_CHECKs, then allocateBuffer(); okb and oks are what
\* isValidBatchSize and isValidSeqLen returned, alloc the calls allocateBuffer() makes.
GuardAndAllocate(batch, seq_len, okb, oks, alloc) ==
    IF ~okb
    THEN Check("isValidBatchSize", batch, FALSE) \o Throw("FT_CHECK")
    ELSE IF ~oks
    THEN Check("isValidBatchSize", batch, TRUE) \o Check("isValidSeqLen", seq_len, FALSE)
         \o Throw("FT_CHECK")
    ELSE Check("isValidBatchSize", batch, TRUE) \o Check("isValidSeqLen", seq_len, TRUE)
         \o alloc

\* Lines 99-208: what a call that passed the guard issues after allocateBuffer().
Pipeline(seq_len, token_num, po_shape, po_null, useSparse, fuseBatch, tileOk) ==
    LET S == getSFromMaxSeqLen(seq_len)
    IN  ProjectQKV(token_num, useSparse, fuseBatch)
        \o invokeTrtAddQkvBias(token_num)
        \o <<Ev("getSFromMaxSeqLen", "-", "-", "-", seq_len, S)>>
        \o Check("isValid", S, tileOk)
        \o (IF ~tileOk
            THEN Throw("FT_CHECK")
            ELSE Attention(S, SetupB(po_shape), po_null) \o ProjectOutput(token_num, useSparse))

\* forward(output_tensors, input_tensors, attention_weights): batch and seq_len are
\* attention_mask.shape[0] and shape[2], token_num is input_query.shape[0], po_shape is
\* padding_offset.shape[0], po_null says its data is nullptr; useSparse, fuseBatch and
\* tileOk are what isUseSparse, isFuseBatchGemm and isValid answer for this call.
Forward(batch, seq_len, token_num, po_shape, po_null, useSparse, fuseBatch, tileOk) ==
    LET vb == isValidBatchSize(batch)
        vs == isValidSeqLen(seq_len)
        a  == allocateBuffer(is_allocate_buffer_, buf, vb.max, vs.max)
        f  == IF is_free_buffer_after_forward_ = TRUE
              THEN freeBuffer(a.flag, a.buf)
              ELSE [buf |-> a.buf, flag |-> a.flag, ev |-> <<>>]
        in == [op |-> "forward", batch |-> batch, seq_len |-> seq_len,
               token_num |-> token_num, po_shape |-> po_shape, po_null |-> po_null,
               useSparse |-> useSparse, fuseBatch |-> fuseBatch, tileOk |-> tileOk,
               result |-> "ok"]
        guard == GuardAndAllocate(batch, seq_len, vb.ret, vs.ret, a.ev)
        pipe == Pipeline(seq_len, token_num, po_shape, po_null, useSparse, fuseBatch, tileOk)
    IN
    /\ life = "live"
    /\ IF ~vb.ret
       THEN \* FT_CHECK of line 80 fails
            /\ max_batch_size_' = vb.max
            /\ call' = [in EXCEPT !.result = "throw_batch"]
            /\ trace' = guard
            /\ UNCHANGED <<max_seq_len_, is_allocate_buffer_, buf, dispatcher_fp16>>
       ELSE IF ~vs.ret
       THEN \* FT_CHECK of line 81 fails
            /\ max_batch_size_' = vb.max
            /\ max_seq_len_' = vs.max
            /\ call' = [in EXCEPT !.result = "throw_seq"]
            /\ trace' = guard
            /\ UNCHANGED <<is_allocate_buffer_, buf, dispatcher_fp16>>
       ELSE IF ~tileOk
       THEN \* FT_CHECK of line 176 fails
            /\ max_batch_size_' = vb.max
            /\ max_seq_len_' = vs.max
            /\ is_allocate_buffer_' = a.flag
            /\ buf' = a.buf
            /\ call' = [in EXCEPT !.result = "throw_tile"]
            /\ trace' = guard \o pipe
            /\ UNCHANGED dispatcher_fp16
       ELSE /\ max_batch_size_' = vb.max
            /\ max_seq_len_' = vs.max
            /\ is_allocate_buffer_' = f.flag
            /\ buf' = f.buf
            /\ dispatcher_fp16' = [dispatcher_fp16 EXCEPT
                                      !.S = getSFromMaxSeqLen(seq_len),
                                      !.B = SetupB(po_shape),
                                      !.state = "Configured"]
            /\ call' = in
            /\ trace' = guard \o pipe \o f.ev
    /\ UNCHANGED <<SPARSITY_ENABLED, life, head_num_, size_per_head_, hidden_units_, sm_,
                   sparse_, is_free_buffer_after_forward_, kernelVars>>

\* A forward call reads its later inputs only when the guard lets it through; the
\* token count of input_query is at most batch * seq_len (padding removed or not), and
\* padding_offset has k * batch + 1 entries, k = 1 or 2.
GuardPasses(batch, seq_len) == isValidBatchSize(batch).ret /\ isValidSeqLen(seq_len).ret

ForwardWith(BS, SS, TS, KS, PN, US, FB, TO) ==
    \E batch \in BS, seq_len \in SS :
        IF GuardPasses(batch, seq_len)
        THEN \E token_num \in {t \in TS : t <= batch * seq_len}, k \in KS, po_null \in PN,
                useSparse \in US, fuseBatch \in FB, tileOk \in TO :
                 Forward(batch, seq_len, token_num, k * batch + 1, po_null, useSparse,
                         fuseBatch, tileOk)
        ELSE Forward(batch, seq_len, 0, 0, FALSE, FALSE, FALSE, FALSE)

ConstructWith(MB, MS, HN, SPH, SM, FA, SP) ==
    \E max_batch_size \in MB, max_seq_len \in MS, head_num \in HN, size_per_head \in SPH,
       sm \in SM, free_after \in FA, sparse \in SP :
        Construct(max_batch_size, max_seq_len, head_num, size_per_head, sm, free_after,
                  sparse)

InitWith(SE) ==
    /\ SPARSITY_ENABLED \in SE
    /\ life = "none"
    /\ max_batch_size_ = 0
    /\ max_seq_len_ = 0
    /\ head_num_ = 0
    /\ size_per_head_ = 0
    /\ hidden_units_ = 0
    /\ sm_ = 0
    /\ sparse_ = FALSE
    /\ is_free_buffer_after_forward_ = FALSE
    /\ is_allocate_buffer_ = FALSE
    /\ dispatcher_fp16 = NoRunner
    /\ buf = NoBuf
    /\ call = NoCall
    /\ trace = <<>>
    /\ data = NoData
    /\ launch = NoLaunch
    /\ done = {}
    /\ qkv_buf = <<>>

\* ---- Spec: capacity guard and buffer lifecycle, over every capacity configuration
\* and every requested batch size and sequence length; dense projections.
Init == InitWith({TRUE})

ConstructCall ==
    ConstructWith(ConfigBatch, ConfigSeq, {2}, SizesPerHead, {kSM_80}, BOOLEAN, {FALSE})

ForwardCall ==
    ForwardWith(CallBatch, CallSeq, {0, 1}, {1}, {FALSE}, {FALSE}, {FALSE}, BOOLEAN)

Next ==
    \/ ConstructCall
    \/ CopyConstruct
    \/ ForwardCall
    \/ AllocateBufferCall
    \/ FreeBufferCall
    \/ Destroy

Spec == Init /\ [][Next]_vars

\* ---- SpecPath: the stages of a forward call, over both builds, both sparse_ flags,
\* every answer of the matmul provider and of the runner, every token count and both
\* padding_offset shapes; the capacity is configured and never exceeded.
InitPath == InitWith(BOOLEAN)

ConstructPath ==
    ConstructWith({MaxBatch}, {HardSeqLen + 128}, {2}, {SupportedSizePerHead}, {kSM_80},
                  BOOLEAN, BOOLEAN)

ForwardPath ==
    ForwardWith({MaxBatch}, {MaxSeq, HardSeqLen}, TokenCounts, {1, 2}, BOOLEAN, BOOLEAN,
                BOOLEAN, BOOLEAN)

NextPath ==
    \/ ConstructPath
    \/ ForwardPath
    \/ FreeBufferCall
    \/ Destroy

SpecPath == InitPath /\ [][NextPath]_vars

\* ---- SpecRows: the rows a forward call hands to the matmul provider against the rows
\* of the regions, in a build with SPARSITY_ENABLED: unset and small capacities, both
\* sparse_ flags, every answer of the matmul provider, every token count.
ConstructRows ==
    ConstructWith({0, MaxBatch}, {0, MaxSeq, HardSeqLen}, {2}, {SupportedSizePerHead},
                  {kSM_80}, BOOLEAN, BOOLEAN)

ForwardRows ==
    ForwardWith(0..MaxBatch, {0, MaxSeq, HardSeqLen}, TokenCounts, {1}, {FALSE}, BOOLEAN,
                BOOLEAN, {TRUE})

NextRows ==
    \/ ConstructRows
    \/ ForwardRows
    \/ FreeBufferCall
    \/ Destroy

SpecRows == Init /\ [][NextRows]_vars

\* ---- SpecCtor: construction over every hardware generation and per-head dimension.
ConstructAny ==
    ConstructWith({0, MaxBatch}, {0, MaxSeq}, Heads, SizesPerHead, AllSMs, BOOLEAN, {FALSE})

ForwardOne ==
    ForwardWith({MaxBatch}, {MaxSeq}, {1}, {1}, {FALSE}, {FALSE}, {FALSE}, BOOLEAN)

NextCtor ==
    \/ ConstructAny
    \/ CopyConstruct
    \/ ForwardOne
    \/ Destroy

SpecCtor == Init /\ [][NextCtor]_vars

\* ---------------------------------------------- trt_add_QKV_bias (21-48)
\* The contents of q_buf_, k_buf_, v_buf_ (element i) and of the three bias vectors
\* (element j), as T: every element of every array is a different number, and so is
\* every sum of a buffer element and a bias element.
BufAt(c, i) == data[c] + i
BiasAt(c, j) == data.bias + 1000 * j + (CASE c = "q" -> 0 [] c = "k" -> 1 [] c = "v" -> 2) * 1000000

\* (const half2*)p: element i of the array seen as half2 is the pair of T elements 2i, 2i+1.
AsHalf2Buf(c, i) == <<BufAt(c, 2 * i), BufAt(c, 2 * i + 1)>>
AsHalf2Bias(c, j) == <<BiasAt(c, 2 * j), BiasAt(c, 2 * j + 1)>>
\* half2 operator+
hadd2(a, b) == <<a[1] + b[1], a[2] + b[2]>>
\* Element e of a half2 array seen as T again.
AsT(arr, e) == arr[e \div 2][(e % 2) + 1]

\* Mutant: the per-head stride of the target leaves out the factor 3.
trt_add_QKV_bias_headStride(blockIdx, threadIdx, blockDim, head_num, size_per_head) ==
    LET seq_id == blockIdx
        size_id == threadIdx % size_per_head
        head_id == (threadIdx - size_id) \div size_per_head
        target_offset == blockIdx * head_num * 3 * size_per_head
                         + head_id * size_per_head
    IN  <<<<target_offset + 0 * size_per_head + size_id,
            hadd2(AsHalf2Buf("q", seq_id * blockDim + threadIdx), AsHalf2Bias("q", threadIdx))>>,
          <<target_offset + 1 * size_per_head + size_id,
            hadd2(AsHalf2Buf("k", seq_id * blockDim + threadIdx), AsHalf2Bias("k", threadIdx))>>,
          <<target_offset + 2 * size_per_head + size_id,
            hadd2(AsHalf2Buf("v", seq_id * blockDim + threadIdx), AsHalf2Bias("v", threadIdx))>>>>

\* The three stores of one thread (lines 37-47), in program order: <<offset in
\* qkv_buf, value>>.
trt_add_QKV_bias(blockIdx, threadIdx, blockDim, head_num, size_per_head) ==
    LET seq_id == blockIdx
        size_id == threadIdx % size_per_head
        head_id == (threadIdx - size_id) \div size_per_head
        target_offset == blockIdx * head_num * 3 * size_per_head
                         + head_id * 3 * size_per_head
    IN  <<<<target_offset + 0 * size_per_head + size_id,
            hadd2(AsHalf2Buf("q", seq_id * blockDim + threadIdx), AsHalf2Bias("q", threadIdx))>>,
          <<target_offset + 1 * size_per_head + size_id,
            hadd2(AsHalf2Buf("k", seq_id * blockDim + threadIdx), AsHalf2Bias("k", threadIdx))>>,
          <<target_offset + 2 * size_per_head + size_id,
            hadd2(AsHalf2Buf("v", seq_id * blockDim + threadIdx), AsHalf2Bias("v", threadIdx))>>>>

\* The stores of one thread of the launch under way.
ThreadStores(blockIdx, threadIdx) ==
    trt_add_QKV_bias(blockIdx, threadIdx, launch.block, launch.head_num, launch.size_per_head)

\* arr after the stores st; a store outside the buffer leaves the buffer as it is.
Store(arr, st) ==
    [arr EXCEPT ![st[1][1]] = st[1][2], ![st[2][1]] = st[2][2], ![st[3][1]] = st[3][2]]

\* arr after threads threadIdx .. blockDim-1 of one block have run.
RECURSIVE RunThreads(_, _, _)
RunThreads(arr, blockIdx, threadIdx) ==
    IF threadIdx >= launch.block
    THEN arr
    ELSE RunThreads(Store(arr, ThreadStores(blockIdx, threadIdx)), blockIdx, threadIdx + 1)

Uninit == <<-1, -1>>

\* invokeTrtAddQkvBias(token_num, attention_weights) on the layer of the kernel
\* specification: the grid is launched, no block has run yet.
LaunchKernel(token_num) ==
    /\ launch.phase = "idle"
    /\ launch' = LaunchConfig(token_num, head_num_, size_per_head_) @@ [phase |-> "running"]
    /\ done' = {}
    /\ qkv_buf' = [p \in 0..((3 * token_num * hidden_units_) \div 2 - 1) |-> Uninit]
    /\ UNCHANGED <<SPARSITY_ENABLED, life, layerVars, call, trace, data>>

\* One block of the grid runs; the blocks run in any order.
RunBlock(blockIdx) ==
    /\ launch.phase = "running"
    /\ blockIdx \in (0..(launch.grid - 1)) \ done
    /\ qkv_buf' = RunThreads(qkv_buf, blockIdx, 0)
    /\ done' = done \cup {blockIdx}
    /\ UNCHANGED <<SPARSITY_ENABLED, life, layerVars, call, trace, data, launch>>

\* ---- SpecKernel: the repack kernel on a live layer with size_per_head_ = 64, over
\* the head counts, token counts and buffer contents below.
InitKernel ==
    /\ SPARSITY_ENABLED = TRUE
    /\ life = "live"
    /\ max_batch_size_ = MaxTokens
    /\ max_seq_len_ = 1
    /\ head_num_ \in 1..MaxKHeads
    /\ size_per_head_ = SupportedSizePerHead
    /\ hidden_units_ = head_num_ * size_per_head_
    /\ sm_ = kSM_80
    /\ sparse_ = FALSE
    /\ is_free_buffer_after_forward_ = FALSE
    /\ is_allocate_buffer_ = TRUE
    /\ dispatcher_fp16 = NewRunner(kSM_80, SupportedSizePerHead)
    /\ buf = [r \in Regions |-> [valid |-> TRUE, size |-> 0]]
    /\ call = NoCall
    /\ trace = <<>>
    /\ data \in [q : {0, 100000}, k : {200000, 300000}, v : {400000, 500000},
                 bias : {10000000, 20000000}]
    /\ launch = NoLaunch
    /\ done = {}
    /\ qkv_buf = <<>>

LaunchAny == \E token_num \in 0..MaxTokens : LaunchKernel(token_num)
RunAnyBlock == \E blockIdx \in 0..(MaxTokens + 1) : RunBlock(blockIdx)

NextKernel ==
    \/ LaunchAny
    \/ RunAnyBlock

SpecKernel == InitKernel /\ [][NextKernel]_vars

\* =================================================================== claims
\* Readings of the event list of a forward call.
BatchChecked(tr) == Len(tr) >= 1 /\ tr[1].op = "isValidBatchSize"
BatchAccepted(tr) == BatchChecked(tr) /\ tr[1].arg = "true"
SeqChecked(tr) == Len(tr) >= 2 /\ tr[2].op = "isValidSeqLen"
SeqAccepted(tr) == SeqChecked(tr) /\ tr[2].arg = "true"
DeviceOps == {"SpGemm", "cudaMemcpyAsync", "batchedGemm", "Gemm", "trt_add_QKV_bias", "run"}
AllocatorOps == {"malloc", "free"}
Positions(tr, ops) == {i \in 1..Len(tr) : tr[i].op \in ops}

\* C1: batch capacity auto-adoption.  A forward call with batch size n > 0 on a layer
\* whose max_batch_size is still 0 passes the batch check and sets max_batch_size to n;
\* a forward call on a layer whose max_batch_size is already set passes the batch
\* check if and only if its batch size is <= max_batch_size; and once max_batch_size
\* is set no operation on the instance changes it.
C1_BatchAutoAdoption ==
    [][ /\ (call'.op = "forward" /\ max_batch_size_ = 0 /\ call'.batch > 0)
            => (BatchAccepted(trace') /\ max_batch_size_' = call'.batch)
        /\ (call'.op = "forward" /\ max_batch_size_ > 0)
            => (BatchAccepted(trace') <=> call'.batch <= max_batch_size_)
        /\ (life = "live" /\ max_batch_size_ > 0)
            => max_batch_size_' = max_batch_size_ ]_vars

\* A call with batch n+1 has been rejected on a layer that adopted n (max_batch_size
\* is constructed 0 or MaxBatch+1, so a value in 1..MaxBatch was adopted).
C1_Witness ==
    /\ call.op = "forward"
    /\ call.result = "throw_batch"
    /\ max_batch_size_ \in 1..MaxBatch
    /\ call.batch = max_batch_size_ + 1

\* C2: sequence-length hard ceiling.  In a forward call that reaches the
\* sequence-length check, the check accepts seq_len if and only if seq_len <= the
\* bound (max_seq_len, or seq_len itself when max_seq_len was 0) and seq_len <= 384;
\* and every forward call with seq_len > 384 is rejected by the guard.
C2_SeqLenCeiling ==
    [][ /\ (call'.op = "forward" /\ BatchAccepted(trace'))
            => LET n == call'.seq_len
                   bound == IF max_seq_len_ = 0 THEN n ELSE max_seq_len_
               IN  /\ SeqChecked(trace')
                   /\ SeqAccepted(trace') <=> (n <= bound /\ n <= 384)
        /\ (call'.op = "forward" /\ call'.seq_len > 384)
            => call'.result \in {"throw_batch", "throw_seq"} ]_vars

\* A call with seq_len = 385 has been rejected by the sequence-length check on a layer
\* configured with max_seq_len_ = 512.
C2_Witness ==
    /\ call.op = "forward"
    /\ call.seq_len = 385
    /\ call.result = "throw_seq"
    /\ max_seq_len_ = 512

\* C3: in a forward call every allocator request and every piece of device work comes
\* after a passed batch check and a passed sequence-length check; a call one of whose
\* checks failed has made no allocator request and enqueued no device work.
C3_ChecksFirst ==
    call.op = "forward" =>
        /\ \A i \in Positions(trace, DeviceOps \cup AllocatorOps) :
               i > 2 /\ BatchAccepted(trace) /\ SeqAccepted(trace)
        /\ call.result \in {"throw_batch", "throw_seq"}
               => Positions(trace, DeviceOps \cup AllocatorOps) = {}

\* A call on an unallocated layer passed the batch check, failed the sequence-length
\* check and left the layer unallocated.
C3_Witness ==
    /\ call.op = "forward"
    /\ call.result = "throw_seq"
    /\ BatchAccepted(trace)
    /\ ~is_allocate_buffer_

\* C4: no partial-success mode.  A forward call aborted by one of the layer's checks
\* (batch size, sequence length, tile class) has enqueued no device work, and a call
\* that enqueued device work enqueued all its stages: the Q/K/V projections, the
\* repack kernel, the attention kernel and the output projection.
C4_NoPartialSuccess ==
    call.op = "forward" =>
        /\ call.result \in {"throw_batch", "throw_seq", "throw_tile"}
               => Positions(trace, DeviceOps) = {}
        /\ Positions(trace, DeviceOps) # {}
               => /\ Positions(trace, {"SpGemm", "batchedGemm", "Gemm"}) # {}
                  /\ Positions(trace, {"trt_add_QKV_bias"}) # {}
                  /\ Positions(trace, {"run"}) # {}
                  /\ \E i \in 1..Len(trace) : trace[i].dst = "attention_out"

\* C5: scratch all-or-none.  Between operations either all six scratch regions and the
\* pointer table are valid and is_allocate_buffer_ is true, or none of them is valid
\* and the flag is false.
C5_AllOrNone ==
    \/ is_allocate_buffer_ /\ \A r \in Regions : buf[r].valid
    \/ ~is_allocate_buffer_ /\ \A r \in Regions : ~buf[r].valid

\* A forward call on a layer that releases after each call was aborted by the tile
\* check after allocateBuffer(): the regions stay allocated, all seven of them.
C5_Witness ==
    /\ call.op = "forward"
    /\ call.result = "throw_tile"
    /\ is_free_buffer_after_forward_
    /\ is_allocate_buffer_
    /\ \A r \in Regions : buf[r].valid

\* C6: idempotent buffer lifecycle.  allocateBuffer() leaves the layer allocated, and
\* allocateBuffer() on an allocated layer (so a second call right after a first)
\* changes no field and makes no allocator request; freeBuffer() on an unallocated
\* layer changes no field and makes no allocator call; allocateBuffer() right after
\* freeBuffer() (so also allocate, release, allocate) ends allocated with all six
\* regions and the pointer table valid, each requested once from the allocator.
C6_IdempotentLifecycle ==
    [][ /\ call'.op = "allocateBuffer" => is_allocate_buffer_'
        /\ (call'.op = "allocateBuffer" /\ is_allocate_buffer_)
            => (layerVars' = layerVars /\ trace' = <<>>)
        /\ (call'.op = "freeBuffer" /\ ~is_allocate_buffer_)
            => (layerVars' = layerVars /\ trace' = <<>>)
        /\ (call.op = "freeBuffer" /\ call'.op = "allocateBuffer")
            => /\ is_allocate_buffer_'
               /\ \A r \in Regions : buf'[r].valid
               /\ Len(trace') = Cardinality(Regions)
               /\ \A r \in Regions :
                      Cardinality({i \in 1..Len(trace') :
                                      trace'[i].op = "malloc" /\ trace'[i].dst = r}) = 1
      ]_vars

\* allocateBuffer() has run on an allocated layer and made no allocator request.
C6_Witness ==
    /\ call.op = "allocateBuffer"
    /\ is_allocate_buffer_
    /\ trace = <<>>

\* The stages of a forward call, read from its event list.
PassedGuard == call.op = "forward" /\ SeqAccepted(trace)
ScratchQKV == {"q_buf_", "k_buf_", "v_buf_"}
\* The three entries a batched matmul of batch count 3 reads from a slice of the table.
TableSlice(name) ==
    CASE name = "batch_qkv_kernel_ptr_" -> <<hA[1], hA[2], hA[3]>>
      [] name = "batch_qkv_input_ptr_" -> <<hA[5], hA[6], hA[7]>>
      [] name = "batch_qkv_buf_ptr_" -> <<hA[9], hA[10], hA[11]>>
\* The matmuls of the input projections, in issue order, and the buffers they write.
QKVPositions == {i \in Positions(trace, {"SpGemm", "batchedGemm", "Gemm"}) :
                    trace[i].dst # "attention_out"}
QKVOps == {trace[i].op : i \in QKVPositions}
Dsts(e) == IF e.op = "batchedGemm"
           THEN {TableSlice(e.dst)[j] : j \in 1..e.n2}
           ELSE {e.dst}
Srcs(e) == IF e.op = "batchedGemm"
           THEN {TableSlice(e.src)[j] : j \in 1..e.n2}
           ELSE {e.src}
OutPositions == {i \in 1..Len(trace) : trace[i].dst = "attention_out"}
Before(A, B) == \A i \in A, j \in B : i < j

\* allocate, Q/K/V projections, repack, attention kernel, output projection, release.
StagesInOrder ==
    LET A == Positions(trace, {"malloc"})
        P == QKVPositions \cup Positions(trace, {"cudaMemcpyAsync"})
        R == Positions(trace, {"trt_add_QKV_bias"})
        K == Positions(trace, {"run"})
        O == OutPositions
        F == Positions(trace, {"free"})
    IN  /\ Before(A, P) /\ Before(P, R) /\ Before(R, K) /\ Before(K, O) /\ Before(O, F)
        /\ Positions(trace, DeviceOps \cup AllocatorOps) = A \cup P \cup R \cup K \cup O \cup F
        /\ UNION {Dsts(trace[i]) : i \in QKVPositions} = ScratchQKV
        /\ \A i \in QKVPositions : Srcs(trace[i]) = {"from_tensor"}
        /\ Cardinality(R) = 1
        /\ \A i \in R : trace[i].src = "q_buf_,k_buf_,v_buf_" /\ trace[i].dst = "qkv_buf_"
        /\ Cardinality(K) = 1
        /\ \A i \in K : trace[i].src = "qkv_buf_" /\ trace[i].dst = "qkv_buf_2_"
        /\ Cardinality(O) = 1
        /\ \A i \in O : trace[i].src = "qkv_buf_2_" /\ trace[i].op \in {"SpGemm", "Gemm"}
        /\ (F # {}) <=> is_free_buffer_after_forward_
        /\ is_allocate_buffer_ <=> ~is_free_buffer_after_forward_

\* C7: accepted-call pipeline order.  Every forward call that passes the guard issues
\* its stages in this order and then returns: scratch allocated, Q/K/V projections
\* into the three per-projection buffers, repack into the fused buffer, attention
\* kernel from the fused buffer into the post-attention buffer, output projection
\* from the post-attention buffer into the output tensor, release of the scratch
\* regions if and only if release-after-each-call is enabled.
C7_PipelineOrder ==
    PassedGuard => (call.result = "ok" /\ StagesInOrder)

\* What the code does keep: a call that passes the guard and the tile check issues
\* its stages in that order.
C7_OrderOfCompletedCalls ==
    (PassedGuard /\ call.result = "ok") => StagesInOrder

\* C8: projection-path selection for Q/K/V.  A forward call that reaches the input
\* projections uses exactly one strategy for them: the structured-sparse path (three
\* sparse matmuls) if and only if sparsity is enabled (the build has SPARSITY_ENABLED
\* and the layer's sparse_ flag is set) and the provider reports the shape as
\* sparsity-favorable; the batched path (one batched call of 3 matmuls) if and only if
\* the sparse path is not used and the provider reports batched fusion as favorable;
\* otherwise three dense matmuls, one each for query, key and value.
C8_PathSelection ==
    PassedGuard =>
        LET sparse == SPARSITY_ENABLED /\ sparse_ /\ call.useSparse
            batched == ~sparse /\ call.fuseBatch
            one(op, w, dst) ==
                Cardinality({i \in QKVPositions :
                                /\ trace[i].op = op
                                /\ trace[i].arg = w
                                /\ trace[i].dst = dst}) = 1
        IN  /\ Cardinality(QKVOps) = 1
            /\ QKVOps = {"SpGemm"} <=> sparse
            /\ QKVOps = {"batchedGemm"} <=> batched
            /\ QKVOps = {"Gemm"} <=> (~sparse /\ ~batched)
            /\ QKVOps = {"SpGemm"}
                   => /\ Cardinality(QKVPositions) = 3
                      /\ one("SpGemm", "query_weight.sp_kernel", "q_buf_")
                      /\ one("SpGemm", "key_weight.sp_kernel", "k_buf_")
                      /\ one("SpGemm", "value_weight.sp_kernel", "v_buf_")
            /\ QKVOps = {"batchedGemm"}
                   => /\ Cardinality(QKVPositions) = 1
                      /\ \A i \in QKVPositions : trace[i].n2 = 3
            /\ QKVOps = {"Gemm"}
                   => /\ Cardinality(QKVPositions) = 3
                      /\ one("Gemm", "query_weight.kernel", "q_buf_")
                      /\ one("Gemm", "key_weight.kernel", "k_buf_")
                      /\ one("Gemm", "value_weight.kernel", "v_buf_")

\* The sparse path was taken in a call for which the provider also reported batched
\* fusion as favorable.
C8_Witness ==
    /\ PassedGuard
    /\ SPARSITY_ENABLED /\ sparse_ /\ call.useSparse /\ call.fuseBatch
    /\ QKVOps = {"SpGemm"}

\* C9: bias-fusion repack correctness.  The kernel is launched with one block per
\* token and head_num * size_per_head / 2 threads; once the block of token s has run,
\* for every head h, within-head index d and c in {0,1,2} (Q, K, V) the fused buffer
\* holds at offset ((s*head_num + h)*3 + c)*size_per_head + d the sum of source c at
\* offset s*hidden + h*size_per_head + d and of bias c at offset h*size_per_head + d
\* (offsets in elements of T).
C9_RepackCorrect ==
    launch.phase = "running" =>
        /\ launch.grid = launch.valid_word_num
        /\ 2 * launch.block = head_num_ * size_per_head_
        /\ \A s \in done, h \in 0..(head_num_ - 1), d \in 0..(size_per_head_ - 1),
              c \in 0..2 :
               LET src == <<"q", "k", "v">>[c + 1]
               IN  AsT(qkv_buf, ((s * head_num_ + h) * 3 + c) * size_per_head_ + d)
                   = BufAt(src, s * hidden_units_ + h * size_per_head_ + d)
                     + BiasAt(src, h * size_per_head_ + d)

\* A launch over MaxTokens tokens and two heads has run all its blocks.
C9_Witness ==
    /\ launch.phase = "running"
    /\ launch.grid = MaxTokens
    /\ head_num_ = 2
    /\ done = 0..(launch.grid - 1)

\* C10: construction-time dispatch.  Constructing or copy-constructing succeeds if and
\* only if the generation is one of 70, 72, 75, 80, 86 and the per-head dimension is
\* 64, and then the instance holds the runner made for that pair; a failed
\* construction leaves no instance; forward runs only on an instance that holds a
\* runner; and no operation on an instance changes the kernel its runner was made for.
C10_ConstructionDispatch ==
    [][ /\ call'.op \in {"construct", "copy"}
            => LET sm == trace'[1].n
                   size_per_head == trace'[1].n2
               IN  /\ call'.result = "ok"
                       <=> (sm \in {70, 72, 75, 80, 86} /\ size_per_head = 64)
                   /\ call'.result = "ok"
                       => /\ life' = "live"
                          /\ sm_' = sm /\ size_per_head_' = size_per_head
                          /\ dispatcher_fp16'.state # "null"
                          /\ dispatcher_fp16'.kernel = <<sm, size_per_head>>
                   /\ (call'.op = "construct" /\ call'.result = "throw")
                       => (life' = "none" /\ dispatcher_fp16' = NoRunner)
        /\ call'.op = "forward"
            => (life = "live" /\ dispatcher_fp16.state # "null")
        /\ (life = "live" /\ call'.op # "copy")
            => /\ dispatcher_fp16'.kernel = dispatcher_fp16.kernel
               /\ dispatcher_fp16'.state # "null" ]_vars

\* Construction for generation 90 with per-head dimension 64 has failed: no instance.
C10_Witness ==
    /\ call.op = "construct"
    /\ call.result = "throw"
    /\ trace[1].n = 90 /\ trace[1].n2 = 64
    /\ life = "none"

\* C11: lazy allocate once, then reuse.  With release-after-each-call disabled and no
\* explicit release, a forward call that passes the guard on an unallocated layer (the
\* first of a sequence) asks the allocator for each of the 7 regions once and for
\* nothing else, and leaves the layer allocated; a forward call on an allocated layer
\* makes no allocator request and leaves the regions as they are.
C11_AllocateOnceThenReuse ==
    [][ (call'.op = "forward" /\ ~is_free_buffer_after_forward_)
            => /\ is_allocate_buffer_
                    => /\ Positions(trace', AllocatorOps) = {}
                       /\ buf' = buf
                       /\ is_allocate_buffer_'
               /\ (~is_allocate_buffer_ /\ SeqAccepted(trace'))
                    => /\ Positions(trace', {"free"}) = {}
                       /\ Cardinality(Positions(trace', {"malloc"})) = 7
                       /\ \A r \in Regions :
                              Cardinality({i \in Positions(trace', {"malloc"}) :
                                              trace'[i].dst = r}) = 1
                       /\ is_allocate_buffer_' ]_vars

\* A forward call has completed on an already allocated layer that does not release
\* after each call, without any allocator request.
C11_Witness ==
    /\ call.op = "forward"
    /\ call.result = "ok"
    /\ ~is_free_buffer_after_forward_
    /\ is_allocate_buffer_
    /\ Positions(trace, AllocatorOps) = {}

\* C12: within one forward call the output projection is one matmul that uses the
\* structured-sparse path if and only if the Q/K/V projections of that call used it,
\* and it is never a batched matmul.
C12_OutputFollowsQKV ==
    PassedGuard =>
        /\ call.result = "ok" => Cardinality(OutPositions) = 1
        /\ \A i \in OutPositions :
               /\ trace[i].op \in {"SpGemm", "Gemm"}
               /\ trace[i].op = "SpGemm" <=> QKVOps = {"SpGemm"}
        /\ \A i \in Positions(trace, {"batchedGemm"}) :
               trace[i].src # "qkv_buf_2_" /\ trace[i].dst # "attention_out"

\* A call whose Q/K/V projections were sparse has issued its output projection as a
\* sparse matmul.
C12_Witness ==
    /\ PassedGuard
    /\ call.result = "ok"
    /\ QKVOps = {"SpGemm"}
    /\ \E i \in OutPositions : trace[i].op = "SpGemm"

\* C13: sparse-path padded row count.  Every structured-sparse matmul of a forward
\* call (query, key, value, output) is issued with the smallest multiple of 8 that is
\* >= token_count; the dense matmuls, the batched matmul and the repack kernel are
\* issued with token_count itself.
C13_PaddedRowCount ==
    PassedGuard =>
        LET t == call.token_num
            padded == CHOOSE p \in t..(t + 7) : p % 8 = 0
        IN  /\ \A i \in Positions(trace, {"SpGemm"}) : trace[i].n = padded
            /\ \A i \in Positions(trace, {"Gemm", "batchedGemm", "trt_add_QKV_bias"}) :
                   trace[i].n = t

\* A call with 9 tokens has issued its four sparse matmuls with 16 rows and the repack
\* kernel with 9.
C13_Witness ==
    /\ PassedGuard
    /\ call.result = "ok"
    /\ call.token_num = 9
    /\ Cardinality({i \in Positions(trace, {"SpGemm"}) : trace[i].n = 16}) = 4
    /\ \E i \in Positions(trace, {"trt_add_QKV_bias"}) : trace[i].n = 9

\* The work units (block, thread) of the launch under way and the stores each makes:
\* <<offset in the fused buffer, value, block>>.
Units == (0..(launch.grid - 1)) \X (0..(launch.block - 1))
UnitStores(u) ==
    LET st == ThreadStores(u[1], u[2])
    IN  {<<st[i][1], st[i][2], u[1]>> : i \in 1..3}
AllStores == UNION {UnitStores(u) : u \in Units}

\* C14: repack work units are hazard-free.  Across all (block, thread) units of one
\* launch the offsets written are exactly 0 .. 3*token_count*hidden/2 - 1 (in half2
\* elements) and there are as many stores as offsets, so each offset is written by
\* exactly one unit; what a unit stores is computed from Q, K, V and the biases alone,
\* so under every order of the blocks each offset holds either nothing yet or the one
\* value its unit stores.
C14_HazardFree ==
    launch.phase = "running" =>
        LET last == (3 * launch.valid_word_num * hidden_units_) \div 2 - 1
        IN  /\ {st[1] : st \in AllStores} = 0..last
            /\ 3 * Cardinality(Units) = last + 1
            /\ Cardinality(AllStores) = last + 1
            /\ DOMAIN qkv_buf = 0..last
            /\ \A st \in AllStores :
                   qkv_buf[st[1]] = IF st[3] \in done THEN st[2] ELSE Uninit

\* Of a launch over MaxTokens tokens and two heads the last block has run and the
\* first has not.
C14_Witness ==
    /\ launch.phase = "running"
    /\ launch.grid = MaxTokens
    /\ head_num_ = 2
    /\ (launch.grid - 1) \in done
    /\ 0 \notin done

\* C15: in every forward call that passes the guard the attention kernel is configured
\* with the call's batch size (the first dimension of the attention mask), for both
\* padding-offset shapes [batch+1] and [2*batch+1] and when the array is null.
C15_ConfiguredWithBatch ==
    PassedGuard =>
        \A i \in Positions(trace, {"setup"}) : trace[i].n2 = call.batch

\* C15 as the code has it: the kernel is configured with padding_offset.shape[0] - 1,
\* which is the call's batch size for the shape [batch+1] and twice the batch size for
\* the shape [2*batch+1], whether the array is null or not; a call that passes the
\* tile check configures the kernel once and leaves the runner configured so.
C15_ConfiguredWithShape ==
    PassedGuard =>
        /\ \A i \in Positions(trace, {"setup"}) :
               /\ trace[i].n2 = call.po_shape - 1
               /\ call.po_shape = call.batch + 1 => trace[i].n2 = call.batch
               /\ call.po_shape = 2 * call.batch + 1 => trace[i].n2 = 2 * call.batch
        /\ call.result = "ok"
               => /\ Cardinality(Positions(trace, {"setup"})) = 1
                  /\ dispatcher_fp16.B = call.po_shape - 1

\* A call with a null padding-offset array of 2*batch+1 entries has configured the
\* kernel with twice its batch size.
C15_Witness ==
    /\ PassedGuard
    /\ call.result = "ok"
    /\ call.batch > 0
    /\ call.po_null
    /\ call.po_shape = 2 * call.batch + 1
    /\ \E i \in Positions(trace, {"setup"}) : trace[i].n2 = 2 * call.batch

\* C16: attention dispatcher protocol.  In every forward call the attention kernel is
\* run only after, in this order and in the same call, the call's sequence length has
\* been mapped to a tile class S, isValid(S) has answered true, and the kernel has been
\* set up for S; it is run for that S; a call whose tile check failed neither sets up
\* nor runs the kernel, and a runner that has been run is in the Configured state.
C16_DispatcherProtocol ==
    call.op = "forward" =>
        /\ \A r \in Positions(trace, {"run"}) :
               \E m, v, s \in 1..Len(trace) :
                   /\ m < v /\ v < s /\ s < r
                   /\ trace[m].op = "getSFromMaxSeqLen" /\ trace[m].n = call.seq_len
                   /\ trace[v].op = "isValid" /\ trace[v].arg = "true"
                   /\ trace[v].n = trace[m].n2
                   /\ trace[s].op = "setup" /\ trace[s].n = trace[m].n2
                   /\ trace[r].n = trace[m].n2
                   /\ dispatcher_fp16.state = "Configured"
                   /\ dispatcher_fp16.S = trace[m].n2
        /\ (\E v \in Positions(trace, {"isValid"}) : trace[v].arg = "false")
               => Positions(trace, {"setup", "run"}) = {}

\* A call with the longest admissible sequence has mapped it, had the tile class
\* confirmed, set up the kernel and run it.
C16_Witness ==
    /\ call.op = "forward"
    /\ call.result = "ok"
    /\ call.seq_len = HardSeqLen
    /\ Positions(trace, {"run"}) # {}
    /\ dispatcher_fp16.state = "Configured"

\* The regions that hold one row of hidden_units_ elements per token.
RowRegions == {"q_buf_", "k_buf_", "v_buf_", "qkv_buf_2_"}

\* C17: in every state in which the scratch regions are allocated, each per-projection
\* region has max_batch_size * max_seq_len * hidden_dimension elements for the current
\* max_batch_size and max_seq_len, and the fused region 3 times that; also after
\* forward calls with batch size or sequence length 0 on unset bounds.
C17_SizedFromCapacity ==
    is_allocate_buffer_ =>
        /\ \A r \in RowRegions :
               buf[r].size = max_batch_size_ * max_seq_len_ * hidden_units_
        /\ buf["qkv_buf_"].size = 3 * max_batch_size_ * max_seq_len_ * hidden_units_

\* The elements of region r while the call that has just run was running: what the
\* call asked the allocator for, or what the region had before the call.
SizeDuring(r, tr, before) ==
    IF \E i \in Positions(tr, {"malloc"}) : tr[i].dst = r
    THEN LET i == CHOOSE i \in Positions(tr, {"malloc"}) : tr[i].dst = r
         IN  tr[i].n
    ELSE before[r].size

\* C18: scratch writes stay in bounds.  In every forward call that passes the guard
\* (its token_count is at most batch * seq_len), on every projection path, the rows a
\* matmul writes to a per-projection region, and the rows the output projection reads
\* from the post-attention region, fit in the rows that region was allocated with.
C18_WritesInBounds ==
    [][ (call'.op = "forward" /\ SeqAccepted(trace'))
            => \A i \in Positions(trace', {"SpGemm", "batchedGemm", "Gemm"}) :
                   \A r \in (Dsts(trace'[i]) \cup Srcs(trace'[i])) \cap RowRegions :
                       trace'[i].n * hidden_units_ <= SizeDuring(r, trace', buf) ]_vars

\* The regions a piece of device work reads or writes.
Touched(e) ==
    CASE e.op = "trt_add_QKV_bias" -> ScratchQKV \cup {e.dst}
      [] e.op = "run" -> {e.src, e.dst, "attn_workspace_"}
      [] e.op = "batchedGemm" -> Dsts(e) \cup Srcs(e) \cup {"batch_qkv_kernel_ptr_"}
      [] OTHER -> {e.src, e.dst}

\* C19: no scratch region is handed back to the allocator while device work of the same
\* forward call that reads or writes it is still pending.  The call returns after
\* enqueueing, so work is known to be complete only where the host has waited for the
\* device; sync_check_cuda_error() is taken to wait in every build.  Work over no row
\* is left aside.
C19_NoReleaseWhilePending ==
    call.op = "forward" =>
        \A j \in Positions(trace, {"free"}), i \in Positions(trace, DeviceOps) :
            (i < j /\ trace[i].n > 0 /\ trace[j].dst \in Touched(trace[i]))
                => \E y \in Positions(trace, {"sync_check_cuda_error"}) : i < y /\ y < j

\* C20: a forward call rejected by the capacity guard leaves max_batch_size,
\* max_seq_len and the allocated flag as they were before the call, also when a bound
\* was unset (0) at the start of the call.
C20_RejectedLeavesState ==
    [][ (call'.op = "forward" /\ call'.result \in {"throw_batch", "throw_seq"})
            => /\ max_batch_size_' = max_batch_size_
               /\ max_seq_len_' = max_seq_len_
               /\ is_allocate_buffer_' = is_allocate_buffer_ ]_vars

====
